---- MODULE Spec2Model ----
(***************************************************************************)
(* Stock movement validation engine of StockMaster (inventory/views.py):   *)
(* validate_document, _update_quant, _create_ledger_entry, the status      *)
(* recomputation of delivery_detail, and the quants written by seed_demo.  *)
(*                                                                         *)
(* The database is modelled as committed rows (quant, ledger, docs) plus,  *)
(* for a request running inside transaction.atomic, an overlay of its      *)
(* uncommitted writes.  Isolation is read committed with row locks held    *)
(* until commit: a request reads committed rows and its own writes, and a  *)
(* write to a row another open transaction has written waits for it.       *)
(***************************************************************************)
EXTENDS Integers, Sequences, FiniteSets, TLC

VARIABLES quant, ledger, docs, req, initQuant

vars == <<quant, ledger, docs, req, initQuant>>

(* ------------------------------ bounds -------------------------------- *)

\* Longest list of lines of a document drawn by Init.
MaxLines == 2

\* Largest magnitude a DecimalField(max_digits=12, decimal_places=2) stores,
\* scaled down from 10^10 - 0.01 so that the model's quantities can exceed it.
MaxQuantity == 250

\* Most documents the create views store in one behaviour.
MaxDocs == 2

(* ------------------------------ domains ------------------------------- *)

Products == {"DESK001", "SCRW01"}
Locations == {"STOCK1", "STOCK2"}
\* A null foreign key.
NoLoc == "null"
OptLocations == Locations \cup {NoLoc}

Procs == {1, 2}

\* Line quantities entered: a signed value (the model field has no sign
\* validator), a normal one and one that overflows when added twice.
Quantities == {-15, 30, 200}

\* StockDocument.DocTypes; "adjustment" is the type the adjustments/new/ route
\* is named for, which DocTypes does not define.
DocTypes == {"receipt", "delivery", "internal"}
AnyDocType == DocTypes \cup {"adjustment"}

\* StockDocument.Status
Status == {"draft", "waiting", "ready", "done", "canceled"}

Rows == Products \X Locations

\* StockDocument.scheduled_date relative to timezone.now().date(), or null.
NoDate == "null"
ScheduledDates == {NoDate, "past", "today", "future"}

\* StockDocument.validated_at: null, or a timestamp.
ValidatedAt == {NoDate, "now"}

\* Free text of reference, contact_name and delivery_address.
References == {"WH/OUT/0001", "WH/OUT/0002"}

(* ------------------------------ helpers ------------------------------- *)

RECURSIVE SeqsUpTo(_, _)
SeqsUpTo(S, n) ==
    IF n = 0 THEN {<<>>}
    ELSE LET shorter == SeqsUpTo(S, n - 1)
         IN  shorter \cup {Append(s, x) : s \in {t \in shorter : Len(t) = n - 1}, x \in S}

\* StockMoveLine: product and quantity.
StockMoveLine == [product : Products, quantity : Quantities]

\* Sum("quantity") over the quants of one (product, location), or Decimal("0").
QuantityOf(store, r) == IF r \in DOMAIN store THEN store[r] ELSE 0

\* The committed rows with a transaction's writes applied.
Merge(store, overlay) ==
    [r \in (DOMAIN store) \cup (DOMAIN overlay) |->
        IF r \in DOMAIN overlay THEN overlay[r] ELSE store[r]]

NoRows == [r \in {} |-> 0]

\* seed_demo: update_or_create of the quants of the demo products at WH/STOCK1.
SeedDesk == 20
SeedScrew == 200
SeedQuants ==
    [r \in {<<"DESK001", "STOCK1">>, <<"SCRW01", "STOCK1">>} |->
        IF r[1] = "DESK001" THEN SeedDesk ELSE SeedScrew]

(* --------------------------- validation engine ------------------------ *)

\* validate_document line 49: the early return on a completed document.
AlreadyDone_never(status) == FALSE
AlreadyDone(status) == status = "done"

\* The _update_quant calls of one line, in order, per doc_type branch
\* (validate_document lines 54-66); no call for a type with no branch.
QuantUpdates_internal_dest_only(doc_type, src, dest, qty) ==
    IF doc_type = "receipt" THEN << [location |-> dest, delta |-> qty] >>
    ELSE IF doc_type = "delivery" THEN << [location |-> src, delta |-> -qty] >>
    ELSE IF doc_type = "internal" THEN << [location |-> dest, delta |-> qty] >>
    ELSE << >>
QuantUpdates_receipt_to_source(doc_type, src, dest, qty) ==
    IF doc_type = "receipt" THEN << [location |-> src, delta |-> qty] >>
    ELSE IF doc_type = "delivery" THEN << [location |-> src, delta |-> -qty] >>
    ELSE IF doc_type = "internal"
         THEN << [location |-> src, delta |-> -qty], [location |-> dest, delta |-> qty] >>
    ELSE << >>
QuantUpdates_delivery_adds(doc_type, src, dest, qty) ==
    IF doc_type = "receipt" THEN << [location |-> dest, delta |-> qty] >>
    ELSE IF doc_type = "delivery" THEN << [location |-> src, delta |-> qty] >>
    ELSE IF doc_type = "internal"
         THEN << [location |-> src, delta |-> -qty], [location |-> dest, delta |-> qty] >>
    ELSE << >>
QuantUpdates(doc_type, src, dest, qty) ==
    IF doc_type = "receipt" THEN << [location |-> dest, delta |-> qty] >>
    ELSE IF doc_type = "delivery" THEN << [location |-> src, delta |-> -qty] >>
    ELSE IF doc_type = "internal"
         THEN << [location |-> src, delta |-> -qty], [location |-> dest, delta |-> qty] >>
    ELSE << >>

\* The _create_ledger_entry call of one line per doc_type branch
\* (validate_document lines 57, 61, 67).
LedgerEntries_two_per_transfer(d, doc_type, product, src, dest, qty) ==
    IF doc_type = "receipt"
    THEN << [document |-> d, product |-> product, source_location |-> NoLoc,
             destination_location |-> dest, quantity_delta |-> qty] >>
    ELSE IF doc_type = "delivery"
    THEN << [document |-> d, product |-> product, source_location |-> src,
             destination_location |-> NoLoc, quantity_delta |-> -qty] >>
    ELSE IF doc_type = "internal"
    THEN << [document |-> d, product |-> product, source_location |-> src,
             destination_location |-> NoLoc, quantity_delta |-> -qty],
            [document |-> d, product |-> product, source_location |-> NoLoc,
             destination_location |-> dest, quantity_delta |-> qty] >>
    ELSE << >>
LedgerEntries_delivery_unsigned(d, doc_type, product, src, dest, qty) ==
    IF doc_type = "receipt"
    THEN << [document |-> d, product |-> product, source_location |-> NoLoc,
             destination_location |-> dest, quantity_delta |-> qty] >>
    ELSE IF doc_type = "delivery"
    THEN << [document |-> d, product |-> product, source_location |-> src,
             destination_location |-> NoLoc, quantity_delta |-> qty] >>
    ELSE IF doc_type = "internal"
    THEN << [document |-> d, product |-> product, source_location |-> src,
             destination_location |-> dest, quantity_delta |-> qty] >>
    ELSE << >>
LedgerEntries(d, doc_type, product, src, dest, qty) ==
    IF doc_type = "receipt"
    THEN << [document |-> d, product |-> product, source_location |-> NoLoc,
             destination_location |-> dest, quantity_delta |-> qty] >>
    ELSE IF doc_type = "delivery"
    THEN << [document |-> d, product |-> product, source_location |-> src,
             destination_location |-> NoLoc, quantity_delta |-> -qty] >>
    ELSE IF doc_type = "internal"
    THEN << [document |-> d, product |-> product, source_location |-> src,
             destination_location |-> dest, quantity_delta |-> qty] >>
    ELSE << >>

\* @transaction.atomic (line 47): what the database holds when the function
\* leaves, by return (ok) or by exception.
AtomicExit_autocommit(committed, written, ok) == written
AtomicExit(committed, written, ok) == IF ok THEN written ELSE committed

\* DecimalField(max_digits=12, decimal_places=2): save() raises on a value
\* with more digits.
Storable(q) == -MaxQuantity <= q /\ q <= MaxQuantity

(* ------------------------------ requests ------------------------------ *)

Idle ==
    [pc |-> "idle", op |-> "none", doc |-> 0,
     doc_type |-> "none", status |-> "none",
     source_location |-> NoLoc, destination_location |-> NoLoc,
     lines |-> << >>, idx |-> 0, sub |-> 0, rd |-> 0,
     txQuant |-> NoRows, txLedger |-> << >>, any_short |-> FALSE,
     validated_at |-> NoDate, attempts |-> 0, via |-> "none",
     q0 |-> NoRows, l0 |-> 0, status0 |-> "none"]

Finished(p) == req[p].pc \in {"idle", "returned", "raised"}

\* Requests served one at a time.
Alone(p) == \A q \in Procs \ {p} : Finished(q)

\* Another open transaction has written row r and not committed.
LockedByOther(p, r) == \E q \in Procs \ {p} : r \in DOMAIN req[q].txQuant

\* What request p reads for row r: its own write, else the committed row.
Visible(p) == Merge(quant, req[p].txQuant)

CurrentLine(p) == req[p].lines[req[p].idx]
CurrentUpdates(p) ==
    QuantUpdates(req[p].doc_type, req[p].source_location,
                 req[p].destination_location, CurrentLine(p).quantity)
CurrentRow(p) == <<CurrentLine(p).product, CurrentUpdates(p)[req[p].sub].location>>

\* The exception leaves validate_document: the transaction is rolled back.
Raise(p) ==
    /\ quant' = AtomicExit(quant, Merge(quant, req[p].txQuant), FALSE)
    /\ ledger' = AtomicExit(ledger, ledger \o req[p].txLedger, FALSE)
    /\ req' = [req EXCEPT ![p] = [@ EXCEPT !.pc = "raised",
                                           !.txQuant = NoRows, !.txLedger = << >>]]
    /\ UNCHANGED <<docs, initQuant>>

\* A caller holding the document as stored calls validate_document on it,
\* once: no view calls it in a loop or catches what it raises.
validate_call(p) ==
    /\ req[p].pc = "idle"
    /\ \E d \in DOMAIN docs :
         req' = [req EXCEPT ![p] =
                   [Idle EXCEPT !.pc = "called", !.op = "validate", !.doc = d,
                                !.doc_type = docs[d].doc_type,
                                !.status = docs[d].status,
                                !.source_location = docs[d].source_location,
                                !.destination_location = docs[d].destination_location,
                                !.attempts = 1,
                                !.q0 = quant, !.l0 = Len(ledger),
                                !.status0 = docs[d].status]]
    /\ UNCHANGED <<quant, ledger, docs, initQuant>>

\* validate_document lines 49-52: the status test and document.lines.all().
validate_begin(p) ==
    /\ req[p].pc = "called"
    /\ req[p].op = "validate"
    /\ IF AlreadyDone(req[p].status)
       THEN req' = [req EXCEPT ![p] = [@ EXCEPT !.pc = "returned"]]
       ELSE req' = [req EXCEPT ![p] = [@ EXCEPT !.pc = "loop",
                                               !.lines = docs[req[p].doc].lines,
                                               !.idx = 1, !.sub = 1]]
    /\ UNCHANGED <<quant, ledger, docs, initQuant>>

\* One loop iteration reaching _update_quant line 32: get_or_create of the
\* quant, which inserts the row at 0 when there is none and raises
\* IntegrityError when the location is null.  A line of a type with no branch
\* is passed over.
update_quant_get(p) ==
    /\ req[p].pc = "loop"
    /\ req[p].idx <= Len(req[p].lines)
    /\ IF CurrentUpdates(p) = << >>
       THEN /\ req' = [req EXCEPT ![p] = [@ EXCEPT !.idx = @ + 1]]
            /\ UNCHANGED <<quant, ledger, docs, initQuant>>
       ELSE IF CurrentRow(p)[2] = NoLoc
       THEN Raise(p)
       ELSE /\ CurrentRow(p) \in DOMAIN Visible(p) \/ ~LockedByOther(p, CurrentRow(p))
            /\ req' = [req EXCEPT ![p] =
                         [@ EXCEPT !.pc = "save",
                                   !.rd = QuantityOf(Visible(p), CurrentRow(p)),
                                   !.txQuant =
                                       IF CurrentRow(p) \in DOMAIN Visible(p) THEN @
                                       ELSE Merge(@, [r \in {CurrentRow(p)} |-> 0])]]
            /\ UNCHANGED <<quant, ledger, docs, initQuant>>

\* _update_quant lines 33-34: quant.quantity + delta and quant.save(); after
\* the last update of the line, its _create_ledger_entry.
update_quant_save(p) ==
    /\ req[p].pc = "save"
    /\ ~LockedByOther(p, CurrentRow(p))
    /\ LET u == CurrentUpdates(p)[req[p].sub]
           new == req[p].rd + u.delta
           last == req[p].sub = Len(CurrentUpdates(p))
       IN IF ~Storable(new)
          THEN Raise(p)
          ELSE /\ req' = [req EXCEPT ![p] =
                            [@ EXCEPT !.pc = "loop",
                                      !.txQuant = Merge(@, [r \in {CurrentRow(p)} |-> new]),
                                      !.txLedger =
                                          IF last
                                          THEN @ \o LedgerEntries(req[p].doc, req[p].doc_type,
                                                       CurrentLine(p).product,
                                                       req[p].source_location,
                                                       req[p].destination_location,
                                                       CurrentLine(p).quantity)
                                          ELSE @,
                                      !.idx = IF last THEN @ + 1 ELSE @,
                                      !.sub = IF last THEN 1 ELSE @ + 1]]
               /\ UNCHANGED <<quant, ledger, docs, initQuant>>

\* document.save(update_fields=["status"]) (lines 70, 811, 906): the stored
\* row with its status column written.
SaveStatus_stamps_validated_at(row, status) ==
    [row EXCEPT !.status = status, !.validated_at = "now"]
SaveStatus_whole_row(row, status) ==
    [row EXCEPT !.status = status, !.reference = "WH/OUT/0002"]
SaveStatus(row, status) == [row EXCEPT !.status = status]

\* validate_document lines 69-70 and the commit of the transaction.
validate_finish(p) ==
    /\ req[p].pc = "loop"
    /\ req[p].idx > Len(req[p].lines)
    /\ quant' = AtomicExit(quant, Merge(quant, req[p].txQuant), TRUE)
    /\ ledger' = AtomicExit(ledger, ledger \o req[p].txLedger, TRUE)
    /\ docs' = [docs EXCEPT ![req[p].doc] = SaveStatus(@, "done")]
    /\ req' = [req EXCEPT ![p] = [@ EXCEPT !.pc = "returned", !.status = "done",
                                           !.txQuant = NoRows, !.txLedger = << >>]]
    /\ UNCHANGED initQuant

(* --------------------- specification: the engine ---------------------- *)

\* Any stored document: every type, every combination of locations, every
\* status, up to MaxLines lines.
Document ==
    [doc_type : AnyDocType, status : Status,
     source_location : OptLocations, destination_location : OptLocations,
     scheduled_date : {"today"}, validated_at : {NoDate},
     reference : {"WH/OUT/0001"},
     lines : SeqsUpTo(StockMoveLine, MaxLines)]

\* One document on an empty store or on the store seed_demo leaves, no
\* ledger entry, no request in progress.
Init ==
    /\ quant \in {NoRows, SeedQuants}
    /\ initQuant = quant
    /\ ledger = << >>
    /\ docs \in [{1} -> Document]
    /\ req = [p \in Procs |-> Idle]

\* Calls of validate_document made one after the other.
Next ==
    \/ \E p \in Procs : Alone(p) /\ validate_call(p)
    \/ \E p \in Procs : Alone(p) /\ validate_begin(p)
    \/ \E p \in Procs : Alone(p) /\ update_quant_get(p)
    \/ \E p \in Procs : Alone(p) /\ update_quant_save(p)
    \/ \E p \in Procs : Alone(p) /\ validate_finish(p)

Spec == Init /\ [][Next]_vars

(* ---------------------- delivery_detail's status ---------------------- *)

\* delivery_detail line 803: the statuses the view recomputes.
Recomputed_all(status) == TRUE
Recomputed(status) == status \in {"draft", "waiting", "ready"}

\* delivery_detail lines 804-808.
StatusFor(any_short) == IF any_short THEN "waiting" ELSE "ready"

\* delivery_detail line 796: a line is short when less is available than asked.
IsShort_le(available, quantity) == available <= quantity
IsShort(available, quantity) == available < quantity

\* delivery_detail lines 762-784: get_object_or_404 of a delivery and its lines.
detail_load(p) ==
    /\ req[p].pc = "idle"
    /\ \E d \in DOMAIN docs :
         /\ docs[d].doc_type = "delivery"
         /\ req' = [req EXCEPT ![p] =
                      [Idle EXCEPT !.pc = "avail", !.op = "detail", !.doc = d,
                                   !.doc_type = docs[d].doc_type,
                                   !.status = docs[d].status,
                                   !.source_location = docs[d].source_location,
                                   !.destination_location = docs[d].destination_location,
                                   !.lines = docs[d].lines, !.idx = 1,
                                   !.q0 = quant, !.l0 = Len(ledger),
                                   !.status0 = docs[d].status]]
    /\ UNCHANGED <<quant, ledger, docs, initQuant>>

\* delivery_detail lines 789-799: one line's available quantity at the source.
detail_avail(p) ==
    /\ req[p].pc = "avail"
    /\ req[p].idx <= Len(req[p].lines)
    /\ LET available == QuantityOf(quant, <<CurrentLine(p).product, req[p].source_location>>)
           is_short == IsShort(available, CurrentLine(p).quantity)
       IN  req' = [req EXCEPT ![p] = [@ EXCEPT !.any_short = @ \/ is_short,
                                               !.idx = @ + 1]]
    /\ UNCHANGED <<quant, ledger, docs, initQuant>>

\* delivery_detail lines 803-811: the status write, decided on the document
\* as loaded.
detail_status(p) ==
    /\ req[p].pc = "avail"
    /\ req[p].idx > Len(req[p].lines)
    /\ LET new_status == StatusFor(req[p].any_short)
           write == Recomputed(req[p].status) /\ new_status # req[p].status
       IN  /\ docs' = IF write
                      THEN [docs EXCEPT ![req[p].doc] = SaveStatus(@, new_status)]
                      ELSE docs
           /\ req' = [req EXCEPT ![p] =
                        [@ EXCEPT !.pc = "returned",
                                  !.status = IF write THEN new_status ELSE @]]
    /\ UNCHANGED <<quant, ledger, initQuant>>

(* ------------------- delivery_cancel, delivery_edit ------------------- *)

\* delivery_cancel line 904: a delivery is canceled unless it is Done.
CancelAllowed_always(status) == TRUE
CancelAllowed(status) == status # "done"

\* delivery_cancel lines 898-903: get_object_or_404 of the delivery.
cancel_load(p) ==
    /\ req[p].pc = "idle"
    /\ \E d \in DOMAIN docs :
         /\ docs[d].doc_type = "delivery"
         /\ req' = [req EXCEPT ![p] =
                      [Idle EXCEPT !.pc = "cancel", !.op = "cancel", !.doc = d,
                                   !.doc_type = docs[d].doc_type,
                                   !.status = docs[d].status,
                                   !.source_location = docs[d].source_location,
                                   !.destination_location = docs[d].destination_location,
                                   !.q0 = quant, !.l0 = Len(ledger),
                                   !.status0 = docs[d].status]]
    /\ UNCHANGED <<quant, ledger, docs, initQuant>>

\* delivery_cancel lines 904-910: the status write, decided on the document
\* as loaded.
cancel_status(p) ==
    /\ req[p].pc = "cancel"
    /\ LET write == CancelAllowed(req[p].status)
       IN  /\ docs' = IF write
                      THEN [docs EXCEPT ![req[p].doc] = SaveStatus(@, "canceled")]
                      ELSE docs
           /\ req' = [req EXCEPT ![p] =
                        [@ EXCEPT !.pc = "returned",
                                  !.status = IF write THEN "canceled" ELSE @]]
    /\ UNCHANGED <<quant, ledger, initQuant>>

\* The lists of lines a delivery is given: none, one line that is short of,
\* equal to or below the seeded stock, and two lines with the short one
\* last.
DeliveryLineLists ==
    LET desk30 == [product |-> "DESK001", quantity |-> 30]
        scrw200 == [product |-> "SCRW01", quantity |-> 200]
        scrw30 == [product |-> "SCRW01", quantity |-> 30]
    IN  { << >>, <<desk30>>, <<scrw200>>, <<scrw30>>, <<scrw30, desk30>> }

\* What a valid POST of DeliveryForm carries (forms.py lines 162-164).
DeliveryFormData ==
    [reference : References, source_location : {"STOCK1", NoLoc},
     scheduled_date : {"future"}]

\* delivery_edit lines 858-863: get_object_or_404 of the delivery, with no
\* test of its status.
edit_load(p) ==
    /\ req[p].pc = "idle"
    /\ \E d \in DOMAIN docs :
         /\ docs[d].doc_type = "delivery"
         /\ req' = [req EXCEPT ![p] =
                      [Idle EXCEPT !.pc = "edit", !.op = "edit", !.doc = d,
                                   !.doc_type = docs[d].doc_type,
                                   !.status = docs[d].status,
                                   !.source_location = docs[d].source_location,
                                   !.destination_location = docs[d].destination_location,
                                   !.validated_at = docs[d].validated_at,
                                   !.q0 = quant, !.l0 = Len(ledger),
                                   !.status0 = docs[d].status]]
    /\ UNCHANGED <<quant, ledger, docs, initQuant>>

\* delivery_edit lines 864-874 on a valid POST: form.save() and doc.save()
\* write every column from the instance as loaded and the form's fields,
\* with the destination set to None; formset.save() stores the lines.
edit_save(p) ==
    /\ req[p].pc = "edit"
    /\ \E form \in DeliveryFormData, lines \in DeliveryLineLists :
         /\ docs' = [docs EXCEPT ![req[p].doc] =
                       [doc_type |-> req[p].doc_type,
                        status |-> req[p].status,
                        source_location |-> form.source_location,
                        destination_location |-> NoLoc,
                        scheduled_date |-> form.scheduled_date,
                        validated_at |-> req[p].validated_at,
                        reference |-> form.reference,
                        lines |-> lines]]
         /\ req' = [req EXCEPT ![p] =
                      [@ EXCEPT !.pc = "returned",
                                !.source_location = form.source_location,
                                !.destination_location = NoLoc]]
    /\ UNCHANGED <<quant, ledger, initQuant>>

\* The view's response: the request is over.
respond(p) ==
    /\ req[p].pc \in {"returned", "raised"}
    /\ req' = [req EXCEPT ![p] = Idle]
    /\ UNCHANGED <<quant, ledger, docs, initQuant>>

(* ----------------- specification: one delivery's views ---------------- *)

\* A stored delivery: any status, a source or none, a destination when
\* written by seed_demo or the admin.
DeliveryDocument ==
    [doc_type : {"delivery"}, status : Status,
     source_location : {"STOCK1", NoLoc},
     destination_location : {NoLoc, "STOCK2"},
     scheduled_date : {"today"}, validated_at : {NoDate},
     reference : {"WH/OUT/0001"},
     lines : DeliveryLineLists]

InitDelivery ==
    /\ quant \in {NoRows, SeedQuants}
    /\ initQuant = quant
    /\ ledger = << >>
    /\ docs \in [{1} -> DeliveryDocument]
    /\ req = [p \in Procs |-> Idle]

\* No other request is in progress or awaiting its response.
Sequential(p) == \A q \in Procs \ {p} : req[q].pc = "idle"

\* The delivery views, one request at a time.
NextDelivery ==
    \/ \E p \in Procs : Sequential(p) /\ validate_call(p)
    \/ \E p \in Procs : Sequential(p) /\ validate_begin(p)
    \/ \E p \in Procs : Sequential(p) /\ update_quant_get(p)
    \/ \E p \in Procs : Sequential(p) /\ update_quant_save(p)
    \/ \E p \in Procs : Sequential(p) /\ validate_finish(p)
    \/ \E p \in Procs : Sequential(p) /\ detail_load(p)
    \/ \E p \in Procs : Sequential(p) /\ detail_avail(p)
    \/ \E p \in Procs : Sequential(p) /\ detail_status(p)
    \/ \E p \in Procs : Sequential(p) /\ cancel_load(p)
    \/ \E p \in Procs : Sequential(p) /\ cancel_status(p)
    \/ \E p \in Procs : Sequential(p) /\ edit_load(p)
    \/ \E p \in Procs : Sequential(p) /\ edit_save(p)
    \/ \E p \in Procs : Sequential(p) /\ respond(p)

SpecDelivery == InitDelivery /\ [][NextDelivery]_vars

(* --------------------------- the admin site --------------------------- *)

\* StockLedgerEntry.document is nullable (models.py lines 149-151): the value
\* it holds when its document is gone.
NoDocument == 0

\* No request is in progress or awaiting its response.
Quiet == \A p \in Procs : req[p].pc = "idle"

\* What the change form of StockLedgerEntryAdmin can store in entry e: only
\* the timestamps are read-only (admin.py line 139).
LedgerChanges(e) ==
    { [e EXCEPT !.product = product, !.quantity_delta = delta] :
        product \in Products, delta \in Quantities } \ {e}

\* The change view of StockLedgerEntryAdmin (admin.py lines 133-140), which
\* ModelAdmin gives every registered model.
admin_ledger_change ==
    /\ Quiet
    /\ \E i \in 1..Len(ledger) : \E e \in LedgerChanges(ledger[i]) :
         ledger' = [ledger EXCEPT ![i] = e]
    /\ UNCHANGED <<quant, docs, req, initQuant>>

\* The delete view of StockLedgerEntryAdmin (admin.py lines 133-140).
admin_ledger_delete ==
    /\ Quiet
    /\ \E i \in 1..Len(ledger) :
         ledger' = SubSeq(ledger, 1, i - 1) \o SubSeq(ledger, i + 1, Len(ledger))
    /\ UNCHANGED <<quant, docs, req, initQuant>>

\* The delete view of StockDocumentAdmin (admin.py lines 84-110): the lines
\* go with the document (models.py line 120, CASCADE) and its ledger entries
\* stay with a null document (models.py lines 149-151, SET_NULL).
admin_document_delete ==
    /\ Quiet
    /\ \E d \in DOMAIN docs :
         /\ docs' = [x \in (DOMAIN docs) \ {d} |-> docs[x]]
         /\ ledger' = [i \in 1..Len(ledger) |->
                         IF ledger[i].document = d
                         THEN [ledger[i] EXCEPT !.document = NoDocument]
                         ELSE ledger[i]]
    /\ UNCHANGED <<quant, req, initQuant>>

(* ------------- specification: validations and the admin site ---------- *)

\* Validations of one delivery, one request at a time, and the admin site's
\* views of the ledger and of the documents.
NextAdmin ==
    \/ \E p \in Procs : Sequential(p) /\ validate_call(p)
    \/ \E p \in Procs : Sequential(p) /\ validate_begin(p)
    \/ \E p \in Procs : Sequential(p) /\ update_quant_get(p)
    \/ \E p \in Procs : Sequential(p) /\ update_quant_save(p)
    \/ \E p \in Procs : Sequential(p) /\ validate_finish(p)
    \/ \E p \in Procs : Sequential(p) /\ respond(p)
    \/ admin_ledger_change
    \/ admin_ledger_delete
    \/ admin_document_delete

SpecAdmin == InitDelivery /\ [][NextAdmin]_vars

(* ------------------ specification: concurrent requests ---------------- *)

\* The row request p is about to insert or update, when another open
\* transaction holds it.
BlockedBy(p, q) ==
    /\ p # q
    /\ req[p].op = "validate"
    /\ \/ /\ req[p].pc = "save"
          /\ CurrentRow(p) \in DOMAIN req[q].txQuant
       \/ /\ req[p].pc = "loop"
          /\ req[p].idx <= Len(req[p].lines)
          /\ CurrentUpdates(p) # << >>
          /\ CurrentRow(p) \notin DOMAIN Visible(p)
          /\ CurrentRow(p) \in DOMAIN req[q].txQuant

\* Two transactions wait for each other's row lock: the database ends one of
\* them with an error.
deadlock_abort(p) ==
    /\ \E q \in Procs : BlockedBy(p, q) /\ BlockedBy(q, p)
    /\ Raise(p)

\* A document as the create views store it: a receipt with a destination
\* only, a delivery with a source only, a transfer with both; one line.
ViewDocument ==
    { d \in [doc_type : DocTypes, status : {"draft", "ready"},
             source_location : OptLocations, destination_location : OptLocations,
             scheduled_date : {"future"}, validated_at : {NoDate},
             reference : {"WH/OUT/0001"},
             lines : {<<l>> : l \in [product : Products, quantity : {30}]}] :
        /\ d.doc_type = "receipt" => d.source_location = NoLoc /\ d.destination_location # NoLoc
        /\ d.doc_type = "delivery" => d.source_location # NoLoc /\ d.destination_location = NoLoc
        /\ d.doc_type = "internal" => d.source_location # NoLoc /\ d.destination_location # NoLoc }

\* Two documents on the seeded store.
InitConc ==
    /\ quant = SeedQuants
    /\ initQuant = quant
    /\ ledger = << >>
    /\ docs \in [{1, 2} -> ViewDocument]
    /\ req = [p \in Procs |-> Idle]

\* Requests interleave at their database statements.
NextConc ==
    \/ \E p \in Procs : validate_call(p)
    \/ \E p \in Procs : validate_begin(p)
    \/ \E p \in Procs : update_quant_get(p)
    \/ \E p \in Procs : update_quant_save(p)
    \/ \E p \in Procs : validate_finish(p)
    \/ \E p \in Procs : deadlock_abort(p)
    \/ \E p \in Procs : detail_load(p)
    \/ \E p \in Procs : detail_avail(p)
    \/ \E p \in Procs : detail_status(p)

SpecConc == InitConc /\ [][NextConc]_vars

(* -------------------------- the create views -------------------------- *)

\* _handle_document_create line 481: scheduled_date and scheduled_date <= today.
AutoValidate_whenever_set(scheduled_date) == scheduled_date # NoDate
AutoValidate(scheduled_date) == scheduled_date \in {"past", "today"}

\* The lists of lines a valid POST of StockMoveLineFormSet stores: the
\* quantity field has no validator (forms.py lines 199-211, models.py line
\* 122).
FormLineLists ==
    { <<[product |-> "DESK001", quantity |-> 30]>>,
      <<[product |-> "DESK001", quantity |-> -15]>> }

\* What a valid POST of ReceiptForm carries: the destination is not required
\* (forms.py lines 120-122, models.py lines 100-106).
ReceiptFormData ==
    [reference : {"WH/OUT/0001"}, destination_location : {"STOCK1", NoLoc},
     scheduled_date : {"today"}]

\* What a valid POST of DeliveryForm carries at creation.
NewDeliveryFormData ==
    [reference : {"WH/OUT/0001"}, source_location : {"STOCK1", NoLoc},
     scheduled_date : {"today"}]

\* What a valid POST of StockDocumentBaseForm carries: neither location is
\* required and nothing compares them (forms.py lines 88-111).
TransferFormData ==
    [reference : {"WH/OUT/0001"},
     source_location : {"STOCK1"}, destination_location : OptLocations,
     scheduled_date : ScheduledDates]

\* The row document.save() inserts.
NewDocument(doc_type, status, src, dest, form, lines) ==
    [doc_type |-> doc_type, status |-> status,
     source_location |-> src, destination_location |-> dest,
     scheduled_date |-> form.scheduled_date, validated_at |-> NoDate,
     reference |-> form.reference, lines |-> lines]

\* The request of view via holding row d after its save, about to call
\* validate_document on it.
Calling(d, row, via) ==
    [Idle EXCEPT !.pc = "called", !.op = "validate", !.doc = d,
                 !.doc_type = row.doc_type, !.status = row.status,
                 !.source_location = row.source_location,
                 !.destination_location = row.destination_location,
                 !.attempts = 1, !.via = via,
                 !.q0 = quant, !.l0 = Len(ledger), !.status0 = row.status]

\* The request of view via that stored row d and calls nothing more.
Created(d, row, via) ==
    [Idle EXCEPT !.pc = "returned", !.op = "create", !.doc = d,
                 !.doc_type = row.doc_type, !.status = row.status,
                 !.source_location = row.source_location,
                 !.destination_location = row.destination_location,
                 !.via = via,
                 !.q0 = quant, !.l0 = Len(ledger), !.status0 = row.status]

\* _handle_receipt_create lines 387-395 on a valid POST: the receipt is
\* saved Ready with no source, its lines are saved, and validate_document is
\* called.
receipt_create(p) ==
    /\ req[p].pc = "idle"
    /\ Len(docs) < MaxDocs
    /\ \E form \in ReceiptFormData, lines \in FormLineLists :
         LET row == NewDocument("receipt", "ready", NoLoc,
                                form.destination_location, form, lines)
         IN  /\ docs' = Append(docs, row)
             /\ req' = [req EXCEPT ![p] = Calling(Len(docs) + 1, row, "receipt_create")]
    /\ UNCHANGED <<quant, ledger, initQuant>>

\* _handle_delivery_create lines 419-428 on a valid POST: the delivery is
\* saved Draft with no destination and its lines are saved.
delivery_create(p) ==
    /\ req[p].pc = "idle"
    /\ Len(docs) < MaxDocs
    /\ \E form \in NewDeliveryFormData, lines \in FormLineLists :
         LET row == NewDocument("delivery", "draft", form.source_location,
                                NoLoc, form, lines)
         IN  /\ docs' = Append(docs, row)
             /\ req' = [req EXCEPT ![p] = Created(Len(docs) + 1, row, "delivery_create")]
    /\ UNCHANGED <<quant, ledger, initQuant>>

\* _handle_document_create lines 470-488 for internal_transfer_create on a
\* valid POST: the transfer is saved Draft, its lines are saved, and
\* validate_document is called when it is scheduled for today or earlier.
internal_transfer_create(p) ==
    /\ req[p].pc = "idle"
    /\ Len(docs) < MaxDocs
    /\ \E form \in TransferFormData, lines \in FormLineLists :
         LET row == NewDocument("internal", "draft", form.source_location,
                                form.destination_location, form, lines)
             d == Len(docs) + 1
         IN  /\ docs' = Append(docs, row)
             /\ req' = [req EXCEPT ![p] =
                          IF AutoValidate(row.scheduled_date)
                          THEN Calling(d, row, "internal_transfer_create")
                          ELSE Created(d, row, "internal_transfer_create")]
    /\ UNCHANGED <<quant, ledger, initQuant>>

\* delivery_validate lines 825-847: get_object_or_404 of a delivery, then
\* validate_document.
delivery_validate(p) ==
    /\ req[p].pc = "idle"
    /\ \E d \in DOMAIN docs :
         /\ docs[d].doc_type = "delivery"
         /\ req' = [req EXCEPT ![p] = Calling(d, docs[d], "delivery_validate")]
    /\ UNCHANGED <<quant, ledger, docs, initQuant>>

(* ------------------ specification: the create views ------------------- *)

\* An empty store and no document.
InitCreate ==
    /\ quant = NoRows
    /\ initQuant = quant
    /\ ledger = << >>
    /\ docs = << >>
    /\ req = [p \in Procs |-> Idle]

\* Documents are created, and deliveries validated, one request at a time.
NextCreate ==
    \/ \E p \in Procs : Sequential(p) /\ receipt_create(p)
    \/ \E p \in Procs : Sequential(p) /\ delivery_create(p)
    \/ \E p \in Procs : Sequential(p) /\ internal_transfer_create(p)
    \/ \E p \in Procs : Sequential(p) /\ delivery_validate(p)
    \/ \E p \in Procs : Sequential(p) /\ validate_begin(p)
    \/ \E p \in Procs : Sequential(p) /\ update_quant_get(p)
    \/ \E p \in Procs : Sequential(p) /\ update_quant_save(p)
    \/ \E p \in Procs : Sequential(p) /\ validate_finish(p)
    \/ \E p \in Procs : Sequential(p) /\ respond(p)

SpecCreate == InitCreate /\ [][NextCreate]_vars

(* ------------- specification: every view of the documents ------------ *)

\* The views urls.py routes that store or change a document, one request at
\* a time: the three create views and, for deliveries only, the detail,
\* validate and cancel views.
NextLive ==
    \/ \E p \in Procs : Sequential(p) /\ receipt_create(p)
    \/ \E p \in Procs : Sequential(p) /\ delivery_create(p)
    \/ \E p \in Procs : Sequential(p) /\ internal_transfer_create(p)
    \/ \E p \in Procs : Sequential(p) /\ delivery_validate(p)
    \/ \E p \in Procs : Sequential(p) /\ validate_begin(p)
    \/ \E p \in Procs : Sequential(p) /\ update_quant_get(p)
    \/ \E p \in Procs : Sequential(p) /\ update_quant_save(p)
    \/ \E p \in Procs : Sequential(p) /\ validate_finish(p)
    \/ \E p \in Procs : Sequential(p) /\ detail_load(p)
    \/ \E p \in Procs : Sequential(p) /\ detail_avail(p)
    \/ \E p \in Procs : Sequential(p) /\ detail_status(p)
    \/ \E p \in Procs : Sequential(p) /\ cancel_load(p)
    \/ \E p \in Procs : Sequential(p) /\ cancel_status(p)
    \/ \E p \in Procs : Sequential(p) /\ respond(p)

\* Requests keep being made and served as long as some view can act.
SpecLive == InitCreate /\ [][NextLive]_vars /\ WF_vars(NextLive)

(* -------- specification: a cancel and a validation, interleaved ------- *)

\* One delivery as delivery_create and delivery_detail leave it, on the
\* seeded store.
InitCancel ==
    /\ quant = SeedQuants
    /\ initQuant = quant
    /\ ledger = << >>
    /\ docs \in [{1} -> {d \in DeliveryDocument :
                           /\ d.status \in {"draft", "waiting", "ready"}
                           /\ d.source_location # NoLoc
                           /\ d.destination_location = NoLoc}]
    /\ req = [p \in Procs |-> Idle]

\* delivery_validate and delivery_cancel interleave at their database
\* statements.
NextCancel ==
    \/ \E p \in Procs : validate_call(p)
    \/ \E p \in Procs : validate_begin(p)
    \/ \E p \in Procs : update_quant_get(p)
    \/ \E p \in Procs : update_quant_save(p)
    \/ \E p \in Procs : validate_finish(p)
    \/ \E p \in Procs : cancel_load(p)
    \/ \E p \in Procs : cancel_status(p)

SpecCancel == InitCancel /\ [][NextCancel]_vars

(* ------------------------- properties: helpers ------------------------ *)

\* Sum of the quantities of the lines of one product.
RECURSIVE LineSum(_, _)
LineSum(lines, product) ==
    IF lines = << >> THEN 0
    ELSE (IF Head(lines).product = product THEN Head(lines).quantity ELSE 0)
         + LineSum(Tail(lines), product)

\* Quantity of one product over all locations.
RECURSIVE TotalOver(_, _, _)
TotalOver(store, product, locs) ==
    IF locs = {} THEN 0
    ELSE LET l == CHOOSE x \in locs : TRUE
         IN  QuantityOf(store, <<product, l>>) + TotalOver(store, product, locs \ {l})
Total(store, product) == TotalOver(store, product, Locations)

\* Number of ledger entries written for document d.
EntriesOf(d) == Cardinality({i \in 1..Len(ledger) : ledger[i].document = d})

\* A step in which request p commits a validation of a document of type t.
Commits(p, t) ==
    /\ req[p].op = "validate"
    /\ req[p].pc = "loop"
    /\ req'[p].pc = "returned"
    /\ req[p].doc_type = t

\* Request p has returned from a validation that found the document not Done.
Validated(p) ==
    /\ req[p].op = "validate"
    /\ req[p].pc = "returned"
    /\ req[p].status0 # "done"

(* ------------------------------- claims ------------------------------- *)

\* C1: a call of validate_document on a document whose status is already
\* Done raises nothing and changes no quant, no ledger entry and no status;
\* so after a validating call, however many calls follow, the document has
\* exactly one ledger entry per line.
C1_Idempotent ==
    \A p \in Procs :
        /\ (req[p].op = "validate" /\ req[p].status0 = "done")
              => /\ req[p].pc # "raised"
                 /\ quant = req[p].q0
                 /\ Len(ledger) = req[p].l0
                 /\ docs[req[p].doc].status = "done"
        /\ (Validated(p) /\ req[p].doc_type \in DocTypes)
              => EntriesOf(req[p].doc) = Len(docs[req[p].doc].lines)

\* C1 witness: one call validated a document with lines and a later call on
\* the same document, finding it Done, has returned.
C1_Witness ==
    \E p, q \in Procs :
        /\ Validated(p) /\ req[p].doc_type \in DocTypes /\ req[p].lines # << >>
        /\ req[q].op = "validate" /\ req[q].pc = "returned"
        /\ req[q].status0 = "done" /\ req[q].doc = req[p].doc
        /\ req[q].q0 # initQuant

\* C2: when validate_document fails on a line, every quant has its value of
\* before the call, the document has no ledger entry and its stored status is
\* the one of before the call, which is not Done.
C2_Atomic ==
    \A p \in Procs :
        (req[p].op = "validate" /\ req[p].pc = "raised")
            => /\ quant = req[p].q0
               /\ Len(ledger) = req[p].l0
               /\ EntriesOf(req[p].doc) = 0
               /\ docs[req[p].doc].status = req[p].status0
               /\ docs[req[p].doc].status # "done"

\* C2 witness: the failure is on the second line, after the first line's
\* quant and ledger entry were written in the transaction.
C2_Witness ==
    \E p \in Procs :
        /\ req[p].op = "validate" /\ req[p].pc = "raised"
        /\ req[p].idx = 2
        /\ req[p].doc_type \in DocTypes

\* C5: the validation of an internal transfer from A to B leaves the total
\* of every product over all locations unchanged, and for A # B takes the
\* product's line quantities from quant(p, A) and adds them to quant(p, B).
C5_Conservation ==
    [][\A p \in Procs :
          Commits(p, "internal") =>
             \A product \in Products :
                LET A == req[p].source_location
                    B == req[p].destination_location
                    q == LineSum(req[p].lines, product)
                IN  /\ Total(quant', product) = Total(quant, product)
                    /\ (A # B /\ A # NoLoc /\ B # NoLoc) =>
                          /\ QuantityOf(quant', <<product, A>>)
                                = QuantityOf(quant, <<product, A>>) - q
                          /\ QuantityOf(quant', <<product, B>>)
                                = QuantityOf(quant, <<product, B>>) + q]_vars

\* C5 witness: a transfer between two distinct locations has been validated
\* and moved stock.
C5_Witness ==
    \E p \in Procs :
        /\ Validated(p) /\ req[p].doc_type = "internal"
        /\ req[p].source_location # req[p].destination_location
        /\ req[p].lines # << >>
        /\ quant # req[p].q0

\* The ledger entries a document's lines are claimed to produce: one per
\* line, from src to dest, of sign * quantity.
ClaimedEntries(d, lines, src, dest, sign) ==
    [i \in 1..Len(lines) |->
        [document |-> d, product |-> lines[i].product,
         source_location |-> src, destination_location |-> dest,
         quantity_delta |-> sign * lines[i].quantity]]

\* The products of a list of lines.
LineProducts(lines) == {lines[i].product : i \in 1..Len(lines)}

\* C7: the validation of a receipt with destination D adds each line's
\* quantity to quant(product, D), creating the quant when there is none,
\* changes no other quant, appends one ledger entry per line with no source,
\* destination D and delta +quantity, and leaves the document Done.
C7_Receipt ==
    [][\A p \in Procs :
          Commits(p, "receipt") =>
             LET D == req[p].destination_location
                 lines == req[p].lines
             IN  /\ \A r \in Rows :
                       QuantityOf(quant', r) = QuantityOf(quant, r)
                          + (IF r[2] = D THEN LineSum(lines, r[1]) ELSE 0)
                 /\ DOMAIN quant' = (DOMAIN quant) \cup {<<x, D>> : x \in LineProducts(lines)}
                 /\ ledger' = ledger \o ClaimedEntries(req[p].doc, lines, NoLoc, D, 1)
                 /\ docs'[req[p].doc].status = "done"]_vars

\* C7 witness: on an empty store a receipt into STOCK1 with the one line
\* (DESK001, 30) has been validated: the quant is 30 and the ledger has the
\* one entry.
C7_Witness ==
    \E p \in Procs :
        /\ Validated(p) /\ req[p].doc_type = "receipt"
        /\ req[p].q0 = NoRows
        /\ req[p].lines = << [product |-> "DESK001", quantity |-> 30] >>
        /\ quant = [r \in {<<"DESK001", "STOCK1">>} |-> 30]
        /\ ledger = << [document |-> req[p].doc, product |-> "DESK001",
                        source_location |-> NoLoc, destination_location |-> "STOCK1",
                        quantity_delta |-> 30] >>
        /\ docs[req[p].doc].status = "done"

\* C8: the validation of a delivery with source S takes each line's quantity
\* from quant(product, S), changes no other quant and appends one ledger
\* entry per line with source S, no destination and delta -quantity; it does
\* so also when the quantity exceeds what is available.
C8_Delivery ==
    [][\A p \in Procs :
          Commits(p, "delivery") =>
             LET S == req[p].source_location
                 lines == req[p].lines
             IN  /\ \A r \in Rows :
                       QuantityOf(quant', r) = QuantityOf(quant, r)
                          - (IF r[2] = S THEN LineSum(lines, r[1]) ELSE 0)
                 /\ ledger' = ledger \o ClaimedEntries(req[p].doc, lines, S, NoLoc, -1)]_vars

\* C8 witness: with 20 of DESK001 at STOCK1, a delivery of 30 has been
\* validated and the quant is -10.
C8_Witness ==
    \E p \in Procs :
        /\ Validated(p) /\ req[p].doc_type = "delivery"
        /\ req[p].source_location = "STOCK1"
        /\ req[p].lines = << [product |-> "DESK001", quantity |-> 30] >>
        /\ QuantityOf(req[p].q0, <<"DESK001", "STOCK1">>) = 20
        /\ QuantityOf(quant, <<"DESK001", "STOCK1">>) = -10
        /\ Len(ledger) = 1 /\ ledger[1].quantity_delta = -30

\* C9: the validation of an internal transfer appends exactly one ledger
\* entry per line, carrying the source, the destination and delta +quantity,
\* and applies -quantity at the source and +quantity at the destination.
C9_InternalLedger ==
    [][\A p \in Procs :
          Commits(p, "internal") =>
             LET S == req[p].source_location
                 D == req[p].destination_location
                 lines == req[p].lines
             IN  /\ ledger' = ledger \o ClaimedEntries(req[p].doc, lines, S, D, 1)
                 /\ Len(ledger') = Len(ledger) + Len(lines)
                 /\ \A r \in Rows :
                       QuantityOf(quant', r) = QuantityOf(quant, r)
                          - (IF r[2] = S THEN LineSum(lines, r[1]) ELSE 0)
                          + (IF r[2] = D THEN LineSum(lines, r[1]) ELSE 0)]_vars

\* C9 witness: a transfer of two lines has been validated and the ledger
\* has two entries, each with both locations.
C9_Witness ==
    \E p \in Procs :
        /\ Validated(p) /\ req[p].doc_type = "internal"
        /\ Len(req[p].lines) = 2
        /\ Len(ledger) = 2
        /\ \A i \in 1..2 :
              /\ ledger[i].source_location = req[p].source_location
              /\ ledger[i].destination_location = req[p].destination_location
              /\ ledger[i].source_location # NoLoc
              /\ ledger[i].destination_location # NoLoc
              /\ ledger[i].quantity_delta = req[p].lines[i].quantity

\* The one location of an adjustment document: the destination when set,
\* else the source.
AdjustmentLocation(p) ==
    IF req[p].destination_location # NoLoc THEN req[p].destination_location
    ELSE req[p].source_location

\* C10: the validation of an adjustment document with one location set adds
\* each line's signed quantity to the quant at that location and appends a
\* ledger entry with no source, that location as destination and delta
\* quantity.
C10_Adjustment ==
    [][\A p \in Procs :
          (/\ Commits(p, "adjustment")
           /\ (req[p].source_location = NoLoc) # (req[p].destination_location = NoLoc))
          => LET L == AdjustmentLocation(p)
                 lines == req[p].lines
             IN  /\ \A r \in Rows :
                       QuantityOf(quant', r) = QuantityOf(quant, r)
                          + (IF r[2] = L THEN LineSum(lines, r[1]) ELSE 0)
                 /\ ledger' = ledger \o ClaimedEntries(req[p].doc, lines, NoLoc, L, 1)]_vars

\* Sum of quantity_delta over the first n ledger entries of product r[1]
\* whose destination (dest) or source (~dest) is r[2].
RECURSIVE DeltaSum(_, _, _)
DeltaSum(r, dest, n) ==
    IF n = 0 THEN 0
    ELSE DeltaSum(r, dest, n - 1)
         + (IF /\ ledger[n].product = r[1]
               /\ (IF dest THEN ledger[n].destination_location
                           ELSE ledger[n].source_location) = r[2]
            THEN ledger[n].quantity_delta ELSE 0)

\* C6: for every (product, location) the stored quant is the sum of the
\* deltas of the product's ledger entries with that destination minus the
\* sum of the deltas of those with that source.
C6_Reconciles ==
    \A r \in Rows :
        QuantityOf(quant, r) = DeltaSum(r, TRUE, Len(ledger)) - DeltaSum(r, FALSE, Len(ledger))

\* What the lines of the document request p validated add to row r.
NetDelta(p, r) ==
    LET q == LineSum(req[p].lines, r[1])
    IN  IF req[p].doc_type = "receipt"
        THEN (IF r[2] = req[p].destination_location THEN q ELSE 0)
        ELSE IF req[p].doc_type = "delivery"
        THEN (IF r[2] = req[p].source_location THEN -q ELSE 0)
        ELSE IF req[p].doc_type = "internal"
        THEN (IF r[2] = req[p].destination_location THEN q ELSE 0)
             - (IF r[2] = req[p].source_location THEN q ELSE 0)
        ELSE 0

\* C3: after two concurrent validations of different documents, every quant
\* is its initial quantity plus the deltas of both documents for its
\* (product, location).
C3_NoLostUpdate ==
    \A p, q \in Procs :
        (p # q /\ Validated(p) /\ Validated(q) /\ req[p].doc # req[q].doc)
            => \A r \in Rows :
                  QuantityOf(quant, r)
                     = QuantityOf(initQuant, r) + NetDelta(p, r) + NetDelta(q, r)

\* C4: once a delivery's stored status is Done, no step writes Waiting or
\* Ready over it.
C4_DoneNotOverwritten ==
    [][\A d \in DOMAIN docs :
          docs[d].status = "done" => docs'[d].status \notin {"waiting", "ready"}]_vars

\* C11: a validation that returns from a document that was not Done leaves
\* its stored status Done and every other stored field of the document
\* (locations, scheduled_date, validated_at, reference and contact text,
\* type, lines) as it was; no other document changes.
C11_OnlyStatus ==
    [][\A p \in Procs :
          (req[p].op = "validate" /\ req[p].pc = "loop" /\ req'[p].pc = "returned")
          => /\ docs'[req[p].doc].status = "done"
             /\ [docs'[req[p].doc] EXCEPT !.status = docs[req[p].doc].status]
                   = docs[req[p].doc]
             /\ \A d \in (DOMAIN docs) \ {req[p].doc} : docs'[d] = docs[d]
             /\ DOMAIN docs' = DOMAIN docs]_vars

\* C11 witness: a document that was Ready with lines has been validated and
\* is stored Done.
C11_Witness ==
    \E p \in Procs :
        /\ Validated(p) /\ req[p].status0 = "ready"
        /\ req[p].lines # << >>
        /\ docs[req[p].doc].status = "done"
        /\ docs[req[p].doc].lines = req[p].lines
        /\ docs[req[p].doc].validated_at = NoDate

\* The document request p holds lacks a location its type requires.
MissingLocation(p) ==
    \/ req[p].doc_type = "receipt" /\ req[p].destination_location = NoLoc
    \/ req[p].doc_type = "delivery" /\ req[p].source_location = NoLoc
    \/ /\ req[p].doc_type = "internal"
       /\ (req[p].source_location = NoLoc \/ req[p].destination_location = NoLoc)

\* C12: a validation of a document that lacks a required location fails
\* before anything is written, whatever the number of lines: the call does
\* not return normally, its transaction holds no write, and no quant, ledger
\* entry or status changes.
C12_MissingLocationFails ==
    \A p \in Procs :
        (req[p].op = "validate" /\ req[p].status0 # "done" /\ MissingLocation(p))
            => /\ req[p].pc # "returned"
               /\ req[p].txQuant = NoRows
               /\ quant = req[p].q0
               /\ Len(ledger) = req[p].l0
               /\ docs[req[p].doc].status = req[p].status0

\* The document request p holds carries a location its type forbids.
ForbiddenLocation(p) ==
    \/ req[p].doc_type = "receipt" /\ req[p].source_location # NoLoc
    \/ req[p].doc_type = "delivery" /\ req[p].destination_location # NoLoc

\* C13: a validation of a receipt with a source location, or of a delivery
\* with a destination location, fails and applies no quantity effect.
C13_ForbiddenLocationFails ==
    \A p \in Procs :
        (req[p].op = "validate" /\ req[p].status0 # "done" /\ ForbiddenLocation(p))
            => /\ req[p].pc # "returned"
               /\ quant = req[p].q0
               /\ Len(ledger) = req[p].l0

\* A step in which request p of view op leaves its last position pc.
Returns(p, op, pc) ==
    /\ req[p].op = op
    /\ req[p].pc = pc
    /\ req'[p].pc = "returned"

\* Some line of the stored document d asks for more than the quant of its
\* product at the document's source holds, an absent quant counting as 0.
SomeLineShort(d) ==
    \E i \in 1..Len(docs[d].lines) :
        docs[d].lines[i].quantity
            > QuantityOf(quant, <<docs[d].lines[i].product, docs[d].source_location>>)

\* C14: after a delivery_detail read of a delivery stored as Draft, Waiting
\* or Ready, the stored status is Waiting when some line asks for strictly
\* more than the current quant at the source, and Ready otherwise, equal
\* quantities and a document without lines included.
C14_StatusEvaluation ==
    [][\A p \in Procs :
          (Returns(p, "detail", "avail")
             /\ docs[req[p].doc].status \in {"draft", "waiting", "ready"})
          => docs'[req[p].doc].status
                = (IF SomeLineShort(req[p].doc) THEN "waiting" ELSE "ready")]_vars

\* A read has turned a Waiting delivery whose only line asks for exactly
\* the quantity on hand into a Ready one.
C14_Witness ==
    \E p \in Procs :
        /\ req[p].op = "detail" /\ req[p].pc = "returned"
        /\ req[p].status0 = "waiting"
        /\ Len(req[p].lines) = 1
        /\ req[p].lines[1].quantity > 0
        /\ req[p].lines[1].quantity
              = QuantityOf(quant, <<req[p].lines[1].product, req[p].source_location>>)
        /\ docs[req[p].doc].status = "ready"

\* C15: a delivery_detail read of a document loaded as Done or Canceled
\* changes no stored document, whatever the availability it computed.
C15_TerminalNotRecomputed ==
    [][\A p \in Procs :
          (Returns(p, "detail", "avail") /\ req[p].status \in {"done", "canceled"})
          => docs' = docs]_vars

\* A read of a Canceled delivery that found a shortage has left it Canceled.
C15_Witness ==
    \E p \in Procs :
        /\ req[p].op = "detail" /\ req[p].pc = "returned"
        /\ req[p].status0 = "canceled"
        /\ req[p].any_short
        /\ docs[req[p].doc].status = "canceled"

\* C16: delivery_cancel on a delivery that is Done leaves it Done and changes
\* nothing; on a delivery in any other status it stores Canceled and changes
\* nothing else.
C16_CancelBeforeDone ==
    [][\A p \in Procs :
          Returns(p, "cancel", "cancel")
          => /\ quant' = quant
             /\ ledger' = ledger
             /\ \A d \in (DOMAIN docs) \ {req[p].doc} : docs'[d] = docs[d]
             /\ IF docs[req[p].doc].status = "done"
                THEN docs'[req[p].doc] = docs[req[p].doc]
                ELSE docs'[req[p].doc]
                        = [docs[req[p].doc] EXCEPT !.status = "canceled"]]_vars

\* A cancel of a delivery that a validation had made Done has left it Done.
C16_Witness ==
    \E p \in Procs :
        /\ req[p].op = "cancel" /\ req[p].pc = "returned"
        /\ req[p].status0 = "done"
        /\ EntriesOf(req[p].doc) > 0
        /\ docs[req[p].doc].status = "done"

\* C17: once a document is Done and its ledger entries are written, no step
\* changes its header fields or its lines.
C17_DoneImmutable ==
    [][\A d \in DOMAIN docs :
          (docs[d].status = "done" /\ EntriesOf(d) > 0) => docs'[d] = docs[d]]_vars

\* Entry e after, at most, the loss of its document.
SameEntry(e, f) ==
    /\ f.product = e.product
    /\ f.source_location = e.source_location
    /\ f.destination_location = e.destination_location
    /\ f.quantity_delta = e.quantity_delta
    /\ f.document \in {e.document, NoDocument}

\* C18: the ledger is append-only: no step removes an entry or changes the
\* product, the locations or the quantity_delta of an entry, and an entry
\* outlives its document with a null document reference.
C18_AppendOnly ==
    [][/\ Len(ledger') >= Len(ledger)
       /\ \A i \in 1..Len(ledger) : SameEntry(ledger[i], ledger'[i])]_vars

\* The transaction of request p and another one each wait for a quant row
\* the other has written.
Conflict(p) == \E q \in Procs : BlockedBy(p, q) /\ BlockedBy(q, p)

\* C19: a validation that meets a conflict on a quant is tried again, up to
\* three attempts in all: it does not end in failure while it has made fewer
\* than three.
C19_Retried ==
    [][\A p \in Procs :
          (Conflict(p) /\ req[p].attempts < 3) => req'[p].pc # "raised"]_vars

\* C20: when two validations of the same document, each having loaded it
\* before the other committed, have both returned, the ledger holds one
\* entry per line of the document and every quant differs from its initial
\* value by the document's deltas applied once.
C20_AtMostOnce ==
    \A p, q \in Procs :
        (p # q /\ Validated(p) /\ Validated(q) /\ req[p].doc = req[q].doc)
            => /\ EntriesOf(req[p].doc) = Len(docs[req[p].doc].lines)
               /\ \A r \in Rows :
                     QuantityOf(quant, r) = QuantityOf(initQuant, r) + NetDelta(p, r)

\* C21: once a delivery is Canceled no step changes its status, and no step
\* changes a quant or the ledger on its behalf.
C21_CanceledTerminal ==
    [][\A d \in DOMAIN docs :
          docs[d].status = "canceled"
          => /\ docs'[d].status = "canceled"
             /\ \A p \in Procs :
                   (req[p].doc = d /\ req'[p] # req[p])
                   => quant' = quant /\ ledger' = ledger]_vars

\* C23: no validation of a delivery stored as Waiting moves stock: the step
\* that commits a delivery's validation never finds it Waiting while it
\* changes a quant or the ledger.
C23_NotWhileWaiting ==
    [][\A p \in Procs :
          (Commits(p, "delivery") /\ docs[req[p].doc].status = "waiting")
          => quant' = quant /\ ledger' = ledger]_vars

\* C28: no step of delivery_detail creates or changes a quant or a ledger
\* entry, and the only stored field of a document it may change is the
\* status of the document it reads.
C28_EvaluationReadOnly ==
    [][\A p \in Procs :
          (req'[p].op = "detail" /\ req'[p] # req[p])
          => /\ quant' = quant
             /\ ledger' = ledger
             /\ DOMAIN docs' = DOMAIN docs
             /\ \A d \in DOMAIN docs :
                   [docs'[d] EXCEPT !.status = docs[d].status] = docs[d]
             /\ \A d \in (DOMAIN docs) \ {req'[p].doc} : docs'[d] = docs[d]]_vars

\* A read has stored Waiting on a Draft delivery that carries a reference, a
\* source, a destination and lines, with stock on hand.
C28_Witness ==
    \E p \in Procs :
        /\ req[p].op = "detail" /\ req[p].pc = "returned"
        /\ req[p].status0 = "draft"
        /\ docs[req[p].doc].status = "waiting"
        /\ docs[req[p].doc].lines # << >>
        /\ docs[req[p].doc].destination_location # NoLoc
        /\ quant # NoRows
        /\ quant = req[p].q0

\* C22: whatever the interleaving of a cancel and a validation of the same
\* delivery, a delivery stored as Canceled has no ledger entry and has moved
\* no stock.
C22_CanceledOrApplied ==
    \A d \in DOMAIN docs :
        docs[d].status = "canceled" => EntriesOf(d) = 0 /\ quant = initQuant

\* A step in which request p, idle before, stores a new document through
\* view via.
Creates(p, via) ==
    /\ req[p].pc = "idle"
    /\ req'[p].via = via
    /\ Len(docs') = Len(docs) + 1

\* The ledger entries of document d after the step.
EntriesAfter(d) == Cardinality({i \in 1..Len(ledger') : ledger'[i].document = d})

C25_TransferLocations ==
    \A d \in DOMAIN docs :
        (docs[d].doc_type = "internal" /\ docs[d].status = "done")
            => /\ docs[d].source_location # NoLoc
               /\ docs[d].destination_location # NoLoc
               /\ docs[d].source_location # docs[d].destination_location

\* C26: every stored Receipt has a destination and no source, and every
\* stored Delivery has a source and no destination.
C26_TypeLocations ==
    \A d \in DOMAIN docs :
        /\ docs[d].doc_type = "receipt"
              => docs[d].destination_location # NoLoc /\ docs[d].source_location = NoLoc
        /\ docs[d].doc_type = "delivery"
              => docs[d].source_location # NoLoc /\ docs[d].destination_location = NoLoc

\* C27: every line stored through the document forms has a quantity of 0 or
\* more, so that the validation of a Receipt decreases no quant and the
\* validation of a Delivery increases none.
C27_NonNegativeLines ==
    [][/\ \A d \in DOMAIN docs' : \A i \in 1..Len(docs'[d].lines) :
             docs'[d].lines[i].quantity >= 0
       /\ \A p \in Procs :
             /\ Commits(p, "receipt")
                => \A r \in Rows : QuantityOf(quant', r) >= QuantityOf(quant, r)
             /\ Commits(p, "delivery")
                => \A r \in Rows : QuantityOf(quant', r) <= QuantityOf(quant, r)]_vars

\* The quantity of row r computed from the first n ledger entries alone.
RECURSIVE FromLedger(_, _)
FromLedger(r, n) ==
    IF n = 0 THEN 0
    ELSE FromLedger(r, n - 1)
         + (IF ledger[n].product # r[1] THEN 0
            ELSE (IF ledger[n].destination_location = r[2]
                  THEN ledger[n].quantity_delta ELSE 0)
                 + (IF ledger[n].source_location = r[2]
                    THEN (IF ledger[n].destination_location = NoLoc
                          THEN ledger[n].quantity_delta
                          ELSE -ledger[n].quantity_delta)
                    ELSE 0))

\* C29: starting from an empty store, after any sequence of validations of
\* Receipts, Deliveries and Internal transfers (source equal to destination
\* included), every quant equals the value computed from the ledger: plus
\* the delta of each entry into the location, plus the delta of each entry
\* out of it with no destination, minus the delta of each entry out of it
\* with a destination.
C29_QuantFromLedger ==
    \A r \in Rows :
        initQuant = NoRows => QuantityOf(quant, r) = FromLedger(r, Len(ledger))

\* A delivery and a transfer from a location to itself have been validated
\* in turn on the empty store, leaving a quant that is not zero.
C29_Witness ==
    /\ initQuant = NoRows
    /\ \E d, e \in DOMAIN docs :
          /\ docs[d].doc_type = "delivery"
          /\ docs[d].status = "done" /\ EntriesOf(d) = 1
          /\ docs[e].doc_type = "internal"
          /\ docs[e].source_location = docs[e].destination_location
          /\ docs[e].status = "done" /\ EntriesOf(e) = 1
    /\ \E r \in Rows : QuantityOf(quant, r) # 0
    /\ \A p \in Procs : req[p].pc = "idle"

====
